---- MODULE Spec2Model ----
(***************************************************************************)
(* FolderChronicle: the file classification and relocation engine of       *)
(* src/folderchronicle/core.py (unique_destination_path, gather_files,     *)
(* _backup_files, sort_files).                                             *)
(*                                                                         *)
(* A path is a sequence of segment names relative to the base directory    *)
(* (the base directory itself is << >>); a segment name is a string.  The  *)
(* filesystem is a function from the paths that exist to their entries.    *)
(***************************************************************************)
EXTENDS Integers, Sequences, FiniteSets, TLC

VARIABLES
    fs,        \* the filesystem: [path -> entry] over the paths that exist
    fs0,       \* the filesystem when the run started (history)
    opts,      \* SortOptions: include_subdirs, use_ctime, copy_no_backup
    readable,  \* whether the base directory can be listed
    now,       \* datetime.now() as formatted for the backup directory name
    pc,        \* position of the run
    files,     \* sort_files: the candidate list returned by gather_files
    bidx,      \* _backup_files: number of loop iterations done
    ridx,      \* sort_files: number of relocation loop iterations done
    moved,     \* sort_files: moved
    errors,    \* sort_files: errors (after the backup phase: b_errors included)
    logs,      \* sort_files: logs
    result,    \* what sort_files handed to its caller
    hist,      \* history of the steps of the run, one record per loop iteration
    faults,    \* number of injected filesystem failures so far
    arg,       \* unique_destination_path: the argument of the call under check
    ret,       \* unique_destination_path: the value returned
    run,       \* which call of sort_files this is: the first, or the one after it
    prev,      \* the first call, once a second one has started (history)
    working,   \* App._working
    threads,   \* the worker threads start_sort has started: each one's position
    posted     \* the callbacks posted with after(0, ...) that the main loop has not run

\* the state outside one call of sort_files
aux == <<run, prev, working, threads, posted>>

vars == <<fs, fs0, opts, readable, now, pc, files, bidx, ridx, moved, errors,
          logs, result, hist, faults, arg, ret, run, prev, working, threads, posted>>

----------------------------------------------------------------------------
(* Bounds of the model *)

\* at most this many files of the universe are present when a run starts
MaxFiles == 3

\* at most this many filesystem failures are injected in one run
MaxFaults == 1

----------------------------------------------------------------------------
(* Strings and paths *)

Digits == {"0", "1", "2", "3", "4", "5", "6", "7", "8", "9"}

\* str.isdigit(): non-empty and every character a digit
IsDigit(s) ==
    /\ Len(s) > 0
    /\ \A i \in 1..Len(s) : SubSeq(s, i, i) \in Digits

\* str.startswith(prefix)
StartsWith(s, prefix) ==
    /\ Len(s) >= Len(prefix)
    /\ SubSeq(s, 1, Len(prefix)) = prefix

\* str.rfind("."), 1-based; 0 when there is no dot
LastDot(name) ==
    LET dots == {i \in 1..Len(name) : SubSeq(name, i, i) = "."}
    IN  IF dots = {} THEN 0 ELSE CHOOSE i \in dots : \A j \in dots : j <= i

\* PurePath.suffix: the last dot and what follows it, unless the dot is the
\* first or the last character of the name
Suffix(name) ==
    LET i == LastDot(name)
    IN  IF 1 < i /\ i < Len(name) THEN SubSeq(name, i, Len(name)) ELSE ""

\* PurePath.stem: the name without its suffix
Stem(name) ==
    LET i == LastDot(name)
    IN  IF 1 < i /\ i < Len(name) THEN SubSeq(name, 1, i - 1) ELSE name

\* PurePath.name and PurePath.parent
Name(p) == p[Len(p)]
Parent(p) == SubSeq(p, 1, Len(p) - 1)

\* p.relative_to(base_dir).parts: paths are kept relative to the base directory
IsPrefix(q, p) == Len(q) <= Len(p) /\ SubSeq(p, 1, Len(q)) = q

\* a path and the directories above it
Prefixes(p) == {SubSeq(p, 1, k) : k \in 0..Len(p)}

RECURSIVE Zeros(_)
Zeros(n) == IF n <= 0 THEN "" ELSE "0" \o Zeros(n - 1)

\* no padding
ZeroPadNone(n, w) == ToString(n)

\* format(n, "0<w>d"): decimal, left-padded with zeros to width w
ZeroPad(n, w) == Zeros(w - Len(ToString(n))) \o ToString(n)

RECURSIVE PathStr(_)
\* str(path)
PathStr(p) ==
    IF p = << >> THEN "base"
    ELSE PathStr(Parent(p)) \o "/" \o Name(p)

----------------------------------------------------------------------------
(* Filesystem *)

Exists(f, p) == p \in DOMAIN f
IsFile(f, p) == p \in DOMAIN f /\ f[p].kind = "file"
IsDir(f, p) == p \in DOMAIN f /\ f[p].kind = "dir"

DirEntry == [kind |-> "dir", data |-> << >>, mt |-> 0, ct |-> 0]

----------------------------------------------------------------------------
(* unique_destination_path *)

\* the candidate of round i
Candidate(dest, i) ==
    Parent(dest) \o <<Stem(Name(dest)) \o " (" \o ToString(i) \o ")" \o Suffix(Name(dest))>>

\* a probe that takes the first candidate without testing it
ProbeUntested(f, dest, i) == Candidate(dest, i)

RECURSIVE Probe(_, _, _)
\* the while loop: the first candidate, from round i on, that does not exist
Probe(f, dest, i) ==
    IF ~Exists(f, Candidate(dest, i)) THEN Candidate(dest, i)
    ELSE Probe(f, dest, i + 1)

\* no disambiguation at all
UniqueIdentity(f, dest) == dest

\* a probe that starts at (2)
UniqueFromTwo(f, dest) ==
    IF ~Exists(f, dest) THEN dest ELSE Probe(f, dest, 2)

unique_destination_path(f, dest) ==
    IF ~Exists(f, dest) THEN dest ELSE Probe(f, dest, 1)

----------------------------------------------------------------------------
(* gather_files *)

BackupPrefix == "FolderChronicle Backup"

\* the entries of directory d, as os.walk splits them: sub-directories, and
\* everything else (the "files" list)
Children(f, d) == {p \in DOMAIN f : Len(p) = Len(d) + 1 /\ Parent(p) = d}
SubDirs(f, d) == {p \in Children(f, d) : f[p].kind = "dir"}
NonDirs(f, d) == {p \in Children(f, d) : f[p].kind # "dir"}

\* no pruning
KeptDirsNone(f, d) == SubDirs(f, d)

\* pruning by the exact name instead of the prefix
KeptDirsExact(f, d) == {p \in SubDirs(f, d) : Name(p) # "FolderChronicle Backup"}

\* dirs[:] = [d for d in dirs if not d.startswith("FolderChronicle Backup")]
KeptDirs(f, d) == {p \in SubDirs(f, d) : ~StartsWith(Name(p), BackupPrefix)}

RECURSIVE Walk(_, _)
\* os.walk(root), top-down, with the pruning of line 56 applied at every level:
\* the (root / name) paths of the "files" lists of all directories visited
Walk(f, root) ==
    NonDirs(f, root) \cup UNION {Walk(f, d) : d \in KeptDirs(f, root)}

\* the depth test off by one
AlreadySortedDeep(parts) ==
    /\ Len(parts) > 3
    /\ Len(parts[1]) = 4
    /\ IsDigit(parts[1])
    /\ Len(parts[2]) = 2
    /\ IsDigit(parts[2])

\* the test of lines 67-73 on rel.parts: already under YYYY/MM
AlreadySorted(parts) ==
    /\ Len(parts) >= 3
    /\ Len(parts[1]) = 4
    /\ IsDigit(parts[1])
    /\ Len(parts[2]) = 2
    /\ IsDigit(parts[2])

\* a scan that walks the tree whatever the flag
GatherAlwaysWalks(f, include_subdirs) ==
    {p \in Walk(f, << >>) : ~AlreadySorted(p) /\ IsFile(f, p)}

\* a flat listing that keeps the directories
GatherKeepsDirs(f, include_subdirs) ==
    IF include_subdirs
    THEN {p \in Walk(f, << >>) : ~AlreadySorted(p) /\ IsFile(f, p)}
    ELSE Children(f, << >>)

\* gather_files, as the set of the paths it returns (their order is the
\* directory listing order, which Scan chooses)
gather_files(f, include_subdirs) ==
    IF include_subdirs
    THEN {p \in Walk(f, << >>) : ~AlreadySorted(p) /\ IsFile(f, p)}
    ELSE {p \in Children(f, << >>) : IsFile(f, p)}

\* the sequences that list the set S once each
Orderings(S) ==
    {q \in [1..Cardinality(S) -> S] : \A i, j \in 1..Cardinality(S) : q[i] = q[j] => i = j}

\* os.walk is top-down: the files of a directory come before the files below
\* its sub-directories, and the files below one directory are contiguous; the
\* order inside one listing is the operating system's
WalkOrder(q) ==
    /\ \A i, j \in 1..Len(q) :
          (i < j) => ~(Parent(q[j]) # Parent(q[i]) /\ IsPrefix(Parent(q[j]), Parent(q[i])))
    /\ \A i, j, k \in 1..Len(q) :
          (i < j /\ j < k) =>
              \A d \in Prefixes(Parent(q[i])) :
                  IsPrefix(d, Parent(q[k])) => IsPrefix(d, Parent(q[j]))

\* the lists gather_files may return
Listings(f, include_subdirs) ==
    {q \in Orderings(gather_files(f, include_subdirs)) : WalkOrder(q)}

----------------------------------------------------------------------------
(* The filesystems a run starts from *)

\* timestamps count months since January 1970, local time: 636 is January
\* 2023 and 659 is December 2024.  The (st_mtime, st_ctime) a file that was
\* never sorted may start with:
StampPairs(p) ==
    IF Name(p) = "a.txt" THEN {<<636, 659>>, <<659, 636>>} ELSE {<<636, 659>>}

OldBackup == "FolderChronicle Backup 2023-02-01 10-00-00"
NewBackup == "FolderChronicle Backup 2025-01-01 10-00-00"

\* files that a scan may return
Loose ==
    { <<"a.txt">>, <<"b">>, <<"2023">>, <<"sub", "a.txt">>, <<"2023", "c.txt">> }

\* files left by earlier runs
Settled ==
    { <<"2023", "01", "a.txt">>, <<"2023", "01", "a (1).txt">>,
      <<OldBackup, "a.txt">>, <<"sub", OldBackup, "a.txt">> }

Universe == Loose \cup Settled

\* no file of F lies below another file of F
Consistent(F) == \A p, q \in F : IsPrefix(p, q) => p = q

Ancestors(p) == {SubSeq(p, 1, k) : k \in 0..(Len(p) - 1)}

FileEntry(p, pair) == [kind |-> "file", data |-> p, mt |-> pair[1], ct |-> pair[2]]

\* the filesystem holding the files F with the timestamps st, and their directories
MkFs(F, st) ==
    LET dirs == {<< >>} \cup UNION {Ancestors(p) : p \in F}
    IN  [p \in F \cup dirs |->
            IF p \in F
            THEN FileEntry(p, IF p \in Loose THEN st[p] ELSE <<636, 636>>)
            ELSE DirEntry]

NoResult == [kind |-> "none"]

\* the state of the run before sort_files is entered
RunStart ==
    /\ fs0 = fs
    /\ files = << >>
    /\ bidx = 0
    /\ ridx = 0
    /\ moved = 0
    /\ errors = 0
    /\ logs = << >>
    /\ result = NoResult
    /\ hist = << >>
    /\ faults = 0

\* no second call yet, and the window idle
AuxStart ==
    /\ run = 1
    /\ prev = NoResult
    /\ working = FALSE
    /\ threads = << >>
    /\ posted = << >>

Init ==
    /\ AuxStart
    /\ \E F \in SUBSET Universe :
          /\ Cardinality(F) <= MaxFiles
          /\ Consistent(F)
          /\ \E st \in [F \cap Loose -> UNION {StampPairs(p) : p \in Loose}] :
                /\ \A p \in F \cap Loose : st[p] \in StampPairs(p)
                /\ fs = MkFs(F, st)
          /\ now \in IF \E p \in F : p[1] = OldBackup THEN {OldBackup, NewBackup}
                     ELSE {NewBackup}
    /\ opts \in [include_subdirs : BOOLEAN, use_ctime : BOOLEAN, copy_no_backup : BOOLEAN]
    /\ readable \in BOOLEAN
    /\ pc = "scan"
    /\ arg = << >>
    /\ ret = << >>
    /\ RunStart

----------------------------------------------------------------------------
(* Filesystem operations *)

NoExc == [kind |-> "", msg |-> ""]
Exc(kind, msg) == [kind |-> kind, msg |-> msg]

\* format_exception
format_exception(e) == e.kind \o ": " \o e.msg

\* Path.mkdir(parents=True, exist_ok=True) succeeds unless a directory of the
\* chain exists as something that is not a directory
MkdirOk(f, d) == \A q \in Prefixes(d) : Exists(f, q) => IsDir(f, q)

Mkdirs(f, d) ==
    [p \in DOMAIN f \cup Prefixes(d) |-> IF p \in DOMAIN f THEN f[p] ELSE DirEntry]

\* shutil.copy2 and shutil.move write into dst / basename(src) when dst is a directory
Target(f, src, dst) == IF IsDir(f, dst) THEN dst \o <<Name(src)>> ELSE dst

\* the source is a readable file and the target can be created or replaced
CopyOk(f, src, dst) ==
    /\ IsFile(f, src)
    /\ IsDir(f, Parent(Target(f, src, dst)))
    /\ ~IsDir(f, Target(f, src, dst))

\* shutil.copy2: content and modification time are copied, the copy is a new
\* file (its st_ctime is the time of the run, January 2025)
Copy2(f, src, dst) ==
    LET t == Target(f, src, dst)
    IN  [p \in DOMAIN f \cup {t} |->
            IF p = t THEN [kind |-> "file", data |-> f[src].data, mt |-> f[src].mt, ct |-> 660]
            ELSE f[p]]

\* shutil.move refuses a target that exists inside a destination directory
MoveOk(f, src, dst) ==
    /\ Exists(f, src)
    /\ IsDir(f, Parent(Target(f, src, dst)))
    /\ IsDir(f, dst) => ~Exists(f, Target(f, src, dst))

\* a move that leaves the source behind
MoveKeepsSource(f, src, dst) ==
    LET t == Target(f, src, dst)
    IN  [p \in DOMAIN f \cup {t} |-> IF p = t THEN f[src] ELSE f[p]]

\* shutil.move within one filesystem: os.rename
Move(f, src, dst) ==
    LET t == Target(f, src, dst)
    IN  [p \in (DOMAIN f \ {src}) \cup {t} |-> IF p = t THEN f[src] ELSE f[p]]

\* datetime.fromtimestamp(ts): year and month of a timestamp
Year(ts) == 1970 + (ts \div 12)
Month(ts) == (ts % 12) + 1

----------------------------------------------------------------------------
(* _backup_files: one iteration of the loop, lines 91-102 *)

backup_root(stamp) == <<stamp>>

BackupStep(f, stamp, src, fault) ==
    LET dest_backup == backup_root(stamp) \o src
        f1 == Mkdirs(f, Parent(dest_backup))
    IN  IF fault = "mkdir" \/ ~MkdirOk(f, Parent(dest_backup))
        THEN [fs |-> f, exc |-> Exc("OSError", "mkdir"), dest |-> dest_backup, free |-> FALSE]
        ELSE IF fault = "xfer" \/ ~CopyOk(f1, src, dest_backup)
        THEN [fs |-> f1, exc |-> Exc("OSError", "copy2"), dest |-> dest_backup, free |-> FALSE]
        ELSE [fs |-> Copy2(f1, src, dest_backup), exc |-> NoExc,
              dest |-> Target(f1, src, dest_backup),
              free |-> ~Exists(f1, Target(f1, src, dest_backup))]

----------------------------------------------------------------------------
(* sort_files: one iteration of the relocation loop, lines 126-147 *)

RelocateStep(f, o, src, fault) ==
    LET ts == IF o.use_ctime THEN f[src].ct ELSE f[src].mt
        year == ZeroPad(Year(ts), 4)
        month == ZeroPad(Month(ts), 2)
        dest_dir == <<year, month>>
        f1 == Mkdirs(f, dest_dir)
        dest == unique_destination_path(f1, dest_dir \o <<Name(src)>>)
        none == [fs |-> f, exc |-> NoExc, dest |-> << >>, free |-> FALSE,
                 year |-> "", month |-> ""]
    IN  IF fault = "stat" \/ ~Exists(f, src)
        THEN [none EXCEPT !.exc = Exc("OSError", "stat")]
        ELSE IF fault = "mkdir" \/ ~MkdirOk(f, dest_dir)
        THEN [none EXCEPT !.exc = Exc("OSError", "mkdir")]
        ELSE IF fault = "xfer" \/ ~(IF o.copy_no_backup THEN CopyOk(f1, src, dest)
                                                        ELSE MoveOk(f1, src, dest))
        THEN [none EXCEPT !.fs = f1, !.exc = Exc("OSError", "transfer"), !.dest = dest]
        ELSE [fs |-> IF o.copy_no_backup THEN Copy2(f1, src, dest) ELSE Move(f1, src, dest),
              exc |-> NoExc,
              dest |-> Target(f1, src, dest),
              free |-> ~Exists(f1, Target(f1, src, dest)),
              year |-> year, month |-> month]

\* an error line without the kind of the exception
RelocateLogNoKind(o, src, r) ==
    IF r.exc = NoExc
    THEN (IF o.copy_no_backup THEN "Copied: " ELSE "Moved: ")
            \o Name(src) \o " -> " \o r.year \o "/" \o r.month \o "/"
    ELSE "Error moving " \o Name(src) \o ": " \o r.exc.msg

\* lines 140 and 143, and line 147
RelocateLog(o, src, r) ==
    IF r.exc = NoExc
    THEN (IF o.copy_no_backup THEN "Copied: " ELSE "Moved: ")
            \o Name(src) \o " -> " \o r.year \o "/" \o r.month \o "/"
    ELSE "Error moving " \o Name(src) \o ": " \o format_exception(r.exc)

\* a failed relocation that is not counted
TallyDropsError(m, e, r) == IF r.exc = NoExc THEN <<m + 1, e>> ELSE <<m, e>>

\* lines 144 and 146: the counters after one iteration
Tally(m, e, r) == IF r.exc = NoExc THEN <<m + 1, e>> ELSE <<m, e + 1>>

\* a line put in front of the log
LoggedInFront(l, line) == <<line>> \o l

\* logs.append(line): lines 102, 140, 143 and 147
Logged(l, line) == Append(l, line)

\* a backup loop that stops at the first failure
BackupNextStopsOnError(i, n, failed) == IF i = n \/ failed THEN "relocate" ELSE "backup"

\* a backup loop whose end is missed by one
BackupNextOffByOne(i, n, failed) == IF i > n THEN "relocate" ELSE "backup"

\* lines 91 and 103: after iteration i of n the backup loop goes on, or the
\* stage returns and the relocation starts, whether the iteration failed or not
BackupNext(i, n, failed) == IF i = n THEN "relocate" ELSE "backup"

\* lines 126 and 149: after iteration i of n the relocation loop goes on, or
\* sort_files returns
RelocateNext(i, n) == IF i = n THEN "done" ELSE "relocate"

\* a run that always backs up
AfterScanAlwaysBackup(o) == "backup"

\* a run that goes straight to the relocation
AfterScanSkipsBackup(o) == "relocate"

\* line 121: the phase that follows a scan that found files
AfterScan(o) == IF o.copy_no_backup THEN "relocate" ELSE "backup"

----------------------------------------------------------------------------
(* The run of sort_files *)

Returned(m, e, l) == [kind |-> "returned", moved |-> m, errors |-> e, logs |-> l]

Faults(kinds) == {"none"} \cup (IF faults < MaxFaults THEN kinds ELSE {})

\* lines 111-118 with a base directory that cannot be listed: Path.iterdir
\* raises, os.walk (onerror=None) swallows the error and yields nothing
ScanUnreadable ==
    /\ pc = "scan"
    /\ ~readable
    /\ IF opts.include_subdirs
       THEN /\ pc' = "done"
            /\ result' = Returned(0, 0, <<"No files found.">>)
       ELSE /\ pc' = "raised"
            /\ result' = [kind |-> "raised", exc |-> Exc("PermissionError", "base")]
    /\ UNCHANGED <<fs, fs0, opts, readable, now, files, bidx, ridx, moved, errors,
                   logs, hist, faults, arg, ret>>
    /\ UNCHANGED aux

\* a scan without the early return of lines 117-118
ScanNoEarlyReturn ==
    /\ pc = "scan"
    /\ readable
    /\ \E q \in Listings(fs, opts.include_subdirs) :
          /\ files' = q
          /\ IF q = << >>
             THEN /\ pc' = "done"
                  /\ result' = Returned(0, 0, << >>)
             ELSE /\ pc' = AfterScan(opts)
                  /\ result' = result
    /\ UNCHANGED <<fs, fs0, opts, readable, now, bidx, ridx, moved, errors,
                   logs, hist, faults, arg, ret>>
    /\ UNCHANGED aux

\* lines 111-118 and 121
Scan ==
    /\ pc = "scan"
    /\ readable
    /\ \E q \in Listings(fs, opts.include_subdirs) :
          /\ files' = q
          /\ IF q = << >>
             THEN /\ pc' = "done"
                  /\ result' = Returned(0, 0, <<"No files found.">>)
             ELSE /\ pc' = AfterScan(opts)
                  /\ result' = result
    /\ UNCHANGED <<fs, fs0, opts, readable, now, bidx, ridx, moved, errors,
                   logs, hist, faults, arg, ret>>
    /\ UNCHANGED aux

\* lines 91-102, and lines 122-124 after the last iteration
BackupFile ==
    /\ pc = "backup"
    /\ bidx < Len(files)
    /\ \E fault \in Faults({"mkdir", "xfer"}) :
          LET src == files[bidx + 1]
              r == BackupStep(fs, now, src, fault)
          IN  /\ fs' = r.fs
              /\ faults' = IF fault = "none" THEN faults ELSE faults + 1
              /\ errors' = IF r.exc = NoExc THEN errors ELSE errors + 1
              /\ logs' = IF r.exc = NoExc THEN logs
                         ELSE Logged(logs, "Backup error " \o PathStr(src) \o ": "
                                              \o format_exception(r.exc))
              /\ hist' = Append(hist, [phase |-> "backup", src |-> src, dest |-> r.dest,
                                       ok |-> r.exc = NoExc, free |-> r.free])
              /\ pc' = BackupNext(bidx + 1, Len(files), r.exc # NoExc)
    /\ bidx' = bidx + 1
    /\ UNCHANGED <<fs0, opts, readable, now, files, ridx, moved, result, arg, ret>>
    /\ UNCHANGED aux

\* lines 126-147, and line 149 after the last iteration
RelocateFile ==
    /\ pc = "relocate"
    /\ ridx < Len(files)
    /\ \E fault \in Faults({"stat", "mkdir", "xfer"}) :
          LET src == files[ridx + 1]
              r == RelocateStep(fs, opts, src, fault)
              t == Tally(moved, errors, r)
              l == Logged(logs, RelocateLog(opts, src, r))
          IN  /\ fs' = r.fs
              /\ faults' = IF fault = "none" THEN faults ELSE faults + 1
              /\ moved' = t[1]
              /\ errors' = t[2]
              /\ logs' = l
              /\ hist' = Append(hist, [phase |-> "relocate", src |-> src, dest |-> r.dest,
                                       ok |-> r.exc = NoExc, free |-> r.free])
              /\ pc' = RelocateNext(ridx + 1, Len(files))
              /\ result' = IF RelocateNext(ridx + 1, Len(files)) = "done"
                           THEN Returned(t[1], t[2], l) ELSE result
    /\ ridx' = ridx + 1
    /\ UNCHANGED <<fs0, opts, readable, now, files, bidx, arg, ret>>
    /\ UNCHANGED aux

\* the caller calls sort_files again, on the same base directory, as soon as
\* a first call that moved files without any error has returned
Rerun ==
    /\ pc = "done"
    /\ run = 1
    /\ ~opts.copy_no_backup
    /\ result.moved > 0
    /\ result.errors = 0
    /\ run' = 2
    /\ prev' = [opts |-> opts, files |-> files, result |-> result, hist |-> hist, fs0 |-> fs0]
    /\ opts' \in [include_subdirs : BOOLEAN, use_ctime : BOOLEAN, copy_no_backup : BOOLEAN]
    /\ pc' = "scan"
    /\ fs0' = fs
    /\ files' = << >>
    /\ bidx' = 0
    /\ ridx' = 0
    /\ moved' = 0
    /\ errors' = 0
    /\ logs' = << >>
    /\ result' = NoResult
    /\ hist' = << >>
    /\ UNCHANGED <<fs, readable, now, faults, arg, ret, working, threads, posted>>

Next == ScanUnreadable \/ Scan \/ BackupFile \/ RelocateFile \/ Rerun

Spec == Init /\ [][Next]_vars

----------------------------------------------------------------------------
(* unique_destination_path on its own: any directory content, any argument *)

NamerDir == <<"sub">>

NamerNames ==
    { "a.txt", "a (1).txt", "a (2).txt", "b", "b (1)", ".rc", ".rc (1)",
      "a.tar.gz", "a.tar (1).gz" }

NamerFs(S) ==
    [p \in {<< >>, NamerDir} \cup {NamerDir \o <<n>> : n \in S} |->
        IF Len(p) = 2 THEN FileEntry(p, <<636, 659>>) ELSE DirEntry]

NamerInit ==
    /\ AuxStart
    /\ \E S \in SUBSET NamerNames : fs = NamerFs(S)
    /\ arg \in {NamerDir \o <<n>> : n \in NamerNames}
    /\ ret = << >>
    /\ pc = "call"
    /\ opts = [include_subdirs |-> FALSE, use_ctime |-> FALSE, copy_no_backup |-> FALSE]
    /\ readable = TRUE
    /\ now = NewBackup
    /\ RunStart

NamerCall ==
    /\ pc = "call"
    /\ ret' = unique_destination_path(fs, arg)
    /\ pc' = "ret"
    /\ UNCHANGED <<fs, fs0, opts, readable, now, files, bidx, ridx, moved, errors,
                   logs, result, hist, faults, arg>>
    /\ UNCHANGED aux

NamerNext == NamerCall

NamerSpec == NamerInit /\ [][NamerNext]_vars

----------------------------------------------------------------------------
(* gather_files called on its own *)

\* the regular files of the trees gather_files is called on: at the base, in
\* year-like and month-like directories of every depth, in backup directories
GatherFiles ==
    { <<"a.txt">>, <<"2023">>, <<"FolderChronicle Backup.txt">>,
      <<"2023", "c.txt">>, <<"2023", "02">>,
      <<"2023", "01", "a.txt">>, <<"2023", "01", "x", "e.txt">>,
      <<"2023", "1", "a.txt">>, <<"abcd", "01", "a.txt">>,
      <<"sub", "a.txt">>, <<"sub", "2023", "01", "d.txt">>,
      <<OldBackup, "a.txt">>, <<"FolderChronicle Backup", "g.txt">>,
      <<"sub", OldBackup, "a.txt">> }

\* entries that are neither directories nor regular files (a FIFO, a socket):
\* os.walk lists them with the files, is_file() is false for them
GatherOthers == { <<"pipe">>, <<"sub", "pipe">> }

OtherEntry == [kind |-> "other", data |-> << >>, mt |-> 0, ct |-> 0]

GatherFs(F, O) ==
    LET dirs == {<< >>} \cup UNION {Ancestors(p) : p \in F \cup O}
    IN  [p \in F \cup O \cup dirs |->
            IF p \in F THEN FileEntry(p, <<636, 636>>)
            ELSE IF p \in O THEN OtherEntry
            ELSE DirEntry]

GatherInit ==
    /\ AuxStart
    /\ \E F \in SUBSET GatherFiles, O \in SUBSET GatherOthers :
          /\ Consistent(F \cup O)
          /\ fs = GatherFs(F, O)
    /\ opts \in [include_subdirs : BOOLEAN, use_ctime : {FALSE}, copy_no_backup : {FALSE}]
    /\ readable = TRUE
    /\ now = NewBackup
    /\ pc = "gather"
    /\ arg = << >>
    /\ ret = << >>
    /\ RunStart

\* gather_files(base_dir, include_subdirs); ret is the set of the paths returned
GatherCall ==
    /\ pc = "gather"
    /\ ret' = gather_files(fs, opts.include_subdirs)
    /\ pc' = "gathered"
    /\ UNCHANGED <<fs, fs0, opts, readable, now, files, bidx, ridx, moved, errors,
                   logs, result, hist, faults, arg>>
    /\ UNCHANGED aux

GatherNext == GatherCall

GatherSpec == GatherInit /\ [][GatherNext]_vars

----------------------------------------------------------------------------
(* The window of app.py: start_sort on the main thread, _worker_sort on a
   worker thread, and the callbacks the worker hands to the main loop.
   Here pc is the position of the main thread, run numbers the next press of
   Sort, threads[i] is the worker the i-th accepted press started, posted is
   the queue of after(0, ...) callbacks, and hist records what the main
   thread did. *)

\* presses of Sort in one behaviour
MaxSorts == 3

\* a start_sort that ignores the flag
MayStartAlways(w) == TRUE

\* lines 125-126: start_sort goes on only when no sort is in progress
MayStart(w) == ~w

\* _post(func, ...) by worker i: self.after(0, lambda: func(...)) queues the
\* callbacks for the main loop, in the order of the calls
Posts(q, funcs, i) == q \o [k \in 1..Len(funcs) |-> [f |-> funcs[k], by |-> i]]

\* what GuiSpec leaves alone
GuiFrame == <<fs, fs0, opts, readable, now, files, bidx, ridx, moved, errors, logs,
              result, faults, arg, ret, prev>>

GuiInit ==
    /\ AuxStart
    /\ fs = GatherFs({}, {})
    /\ opts = [include_subdirs |-> FALSE, use_ctime |-> FALSE, copy_no_backup |-> FALSE]
    /\ readable = TRUE
    /\ now = NewBackup
    /\ pc = "idle"
    /\ arg = << >>
    /\ ret = << >>
    /\ RunStart

\* lines 125-126: Sort pressed while a sort is in progress
SortRefused ==
    /\ pc = "idle"
    /\ run <= MaxSorts
    /\ ~MayStart(working)
    /\ run' = run + 1
    /\ hist' = Append(hist, "refused")
    /\ UNCHANGED <<pc, working, threads, posted>>
    /\ UNCHANGED GuiFrame

\* lines 127-130: no valid folder selected
SortInvalid ==
    /\ pc = "idle"
    /\ run <= MaxSorts
    /\ MayStart(working)
    /\ run' = run + 1
    /\ hist' = Append(hist, "invalid")
    /\ UNCHANGED <<pc, working, threads, posted>>
    /\ UNCHANGED GuiFrame

\* lines 132-141: the flag is set, the widgets disabled, the options read
SortAccepted ==
    /\ pc = "idle"
    /\ run <= MaxSorts
    /\ MayStart(working)
    /\ working' = TRUE
    /\ pc' = "starting"
    /\ run' = run + 1
    /\ hist' = Append(hist, "accepted")
    /\ UNCHANGED <<threads, posted>>
    /\ UNCHANGED GuiFrame

\* lines 143-148: the worker thread is created and started
StartThread ==
    /\ pc = "starting"
    /\ \E c \in BOOLEAN :
          threads' = Append(threads, [pos |-> "gather", copy_no_backup |-> c])
    /\ pc' = "idle"
    /\ UNCHANGED <<run, hist, working, posted>>
    /\ UNCHANGED GuiFrame

\* worker i goes to position pos after handing funcs to the main loop
WorkerStep(i, pos, funcs) ==
    /\ threads' = [threads EXCEPT ![i].pos = pos]
    /\ posted' = Posts(posted, funcs, i)
    /\ UNCHANGED <<pc, run, hist, working>>
    /\ UNCHANGED GuiFrame

\* lines 168-176: gather_files raises
WorkerScanFails(i) ==
    /\ threads[i].pos = "gather"
    /\ WorkerStep(i, "finally", <<"set_status", "showerror">>)

\* lines 178-182: nothing to sort
WorkerScanEmpty(i) ==
    /\ threads[i].pos = "gather"
    /\ WorkerStep(i, "finally", <<"set_status", "showinfo">>)

\* lines 184-198: one file found; the progress callbacks are queued before
\* sort_files is called
WorkerScanFinds(i) ==
    /\ threads[i].pos = "gather"
    /\ WorkerStep(i, "sort_files",
                  (IF threads[i].copy_no_backup THEN << >>
                   ELSE <<"set_status", "set_progress">>)
                  \o <<"set_status", "set_progress", "set_progress", "set_status">>)

\* lines 200-211: sort_files returns, with or without errors
WorkerSortReturns(i) ==
    /\ threads[i].pos = "sort_files"
    /\ \E errs \in {0, 1} :
          WorkerStep(i, "finally",
                     <<"log", "log", "set_status",
                       IF errs > 0 THEN "showwarning" ELSE "showinfo">>)

\* line 200: sort_files raises (its scan can, see ScanUnreadable)
WorkerSortRaises(i) ==
    /\ threads[i].pos = "sort_files"
    /\ WorkerStep(i, "finally", << >>)

\* lines 212-216: the finally block, the clearing of the flag queued last
WorkerFinally(i) ==
    /\ threads[i].pos = "finally"
    /\ WorkerStep(i, "exit", <<"sort_btn.state", "path_entry.state", "set_progress", "setattr">>)

\* _worker_sort returns and the thread ends
WorkerExit(i) ==
    /\ threads[i].pos = "exit"
    /\ WorkerStep(i, "dead", << >>)

\* the main loop runs the oldest callback; setattr(self, "_working", False)
\* is the only one that touches the flag
RunCallback ==
    /\ pc = "idle"
    /\ posted # << >>
    /\ posted' = Tail(posted)
    /\ working' = IF Head(posted).f = "setattr" THEN FALSE ELSE working
    /\ hist' = IF Head(posted).f = "setattr" THEN Append(hist, "cleared") ELSE hist
    /\ UNCHANGED <<pc, run, threads>>
    /\ UNCHANGED GuiFrame

GuiNext ==
    \/ SortRefused
    \/ SortInvalid
    \/ SortAccepted
    \/ StartThread
    \/ RunCallback
    \/ \E i \in 1..Len(threads) :
          \/ WorkerScanFails(i)
          \/ WorkerScanEmpty(i)
          \/ WorkerScanFinds(i)
          \/ WorkerSortReturns(i)
          \/ WorkerSortRaises(i)
          \/ WorkerFinally(i)
          \/ WorkerExit(i)

GuiSpec == GuiInit /\ [][GuiNext]_vars

----------------------------------------------------------------------------
(* Claims about unique_destination_path *)

\* C1: unique_destination_path(P) returns P itself when P does not exist, and
\* when P exists it returns a path that does not exist at call time.
C1_UniqueFresh ==
    pc = "ret" =>
        /\ ~Exists(fs, arg) => ret = arg
        /\ Exists(fs, arg) => ret \notin DOMAIN fs

C1_Witness ==
    /\ pc = "ret"
    /\ arg \in DOMAIN fs
    /\ ret # arg
    /\ ret \notin DOMAIN fs

\* how the names of NamerNames split into stem and extension
SplitOf(n) ==
    CASE n = "a.txt" -> <<"a", ".txt">>
      [] n = "a (1).txt" -> <<"a (1)", ".txt">>
      [] n = "a (2).txt" -> <<"a (2)", ".txt">>
      [] n = "b" -> <<"b", "">>
      [] n = "b (1)" -> <<"b (1)", "">>
      [] n = ".rc" -> <<".rc", "">>
      [] n = ".rc (1)" -> <<".rc (1)", "">>
      [] n = "a.tar.gz" -> <<"a.tar", ".gz">>
      [] n = "a.tar (1).gz" -> <<"a.tar (1)", ".gz">>

Decimal(n) ==
    CASE n = 1 -> "1" [] n = 2 -> "2" [] n = 3 -> "3" [] n = 4 -> "4" [] n = 5 -> "5"
      [] n = 6 -> "6" [] n = 7 -> "7" [] n = 8 -> "8" [] n = 9 -> "9" [] n = 10 -> "10"

\* parent/'stem (k).ext' for P = parent/stem.ext
Numbered(p, k) ==
    <<p[1], SplitOf(p[2])[1] \o " (" \o Decimal(k) \o ")" \o SplitOf(p[2])[2]>>

\* C2: when P = parent/stem.ext exists, the result is parent/'stem (n).ext' for
\* the smallest n >= 1 such that that path does not exist: every 'stem (k).ext'
\* with 1 <= k < n exists.
C2_SmallestSuffix ==
    (pc = "ret" /\ arg \in DOMAIN fs) =>
        \E n \in 1..(Cardinality(NamerNames) + 1) :
            /\ ret = Numbered(arg, n)
            /\ ret \notin DOMAIN fs
            /\ \A k \in 1..(n - 1) : Numbered(arg, k) \in DOMAIN fs

C2_Witness ==
    /\ pc = "ret"
    /\ arg = <<"sub", "a.txt">>
    /\ <<"sub", "a (1).txt">> \in DOMAIN fs
    /\ ret = <<"sub", "a (2).txt">>

----------------------------------------------------------------------------
(* Claims about a run of sort_files *)

BackupSteps == {i \in 1..Len(hist) : hist[i].phase = "backup"}
RelocateSteps == {i \in 1..Len(hist) : hist[i].phase = "relocate"}
Candidates == {files[i] : i \in 1..Len(files)}
NoFailure == \A i \in 1..Len(hist) : hist[i].ok
Finished == pc = "done" /\ result.kind = "returned"

\* the timestamp the options choose for a file the run started with
ChosenStamp(p) == IF opts.use_ctime THEN fs0[p].ct ELSE fs0[p].mt

\* base/YYYY/MM of the timestamps of the model
StampDir(ts) ==
    CASE ts = 636 -> <<"2023", "01">>
      [] ts = 659 -> <<"2024", "12">>

\* what C3 says of a candidate besides its original path
SortedAndBackedUp(src) ==
    /\ IsDir(fs, StampDir(ChosenStamp(src)))
    /\ \E p \in DOMAIN fs :
          /\ Len(p) = 3
          /\ Parent(p) = StampDir(ChosenStamp(src))
          /\ fs[p].kind = "file"
          /\ fs[p].data = fs0[src].data
    /\ (<<now>> \o src) \in DOMAIN fs
    /\ fs[<<now>> \o src].kind = "file"
    /\ fs[<<now>> \o src].data = fs0[src].data

MoveRun == Finished /\ ~opts.copy_no_backup /\ NoFailure

\* C3 as claimed: after a move-mode run in which no filesystem operation
\* fails, every candidate's original path no longer exists, a file with its
\* content exists under base/YYYY/MM (a directory), and a copy of the original
\* exists under the run's backup directory at the file's path relative to the
\* base.
C3_OriginalPathGone ==
    MoveRun => \A src \in Candidates : src \notin DOMAIN fs /\ SortedAndBackedUp(src)

\* C3 as amended: ... every candidate's original path no longer holds a file
\* (it no longer exists, or it is a directory, base/YYYY or base/YYYY/MM, that
\* the relocation of another candidate created) ...
C3_OriginalFileGone ==
    MoveRun =>
        \A src \in Candidates :
            /\ src \in DOMAIN fs =>
                  /\ fs[src].kind = "dir"
                  /\ \E i \in RelocateSteps : hist[i].ok /\ IsPrefix(src, hist[i].dest)
            /\ SortedAndBackedUp(src)

C3_Witness ==
    /\ MoveRun
    /\ Len(files) >= 2
    /\ \E src \in Candidates : StampDir(ChosenStamp(src)) \notin DOMAIN fs0
    /\ <<"2023">> \in Candidates
    /\ IsDir(fs, <<"2023">>)

\* C4: in a backup-enabled run the backup stage has attempted every candidate
\* before the first candidate is relocated, and no relocation step precedes a
\* backup step.
C4_BackupBeforeRelocation ==
    /\ \A i \in RelocateSteps : \A j \in BackupSteps : j < i
    /\ (~opts.copy_no_backup /\ RelocateSteps # {}) =>
          {hist[j].src : j \in BackupSteps} = Candidates

C4_Witness ==
    /\ ~opts.copy_no_backup
    /\ Len(files) >= 2
    /\ Cardinality(BackupSteps) = Len(files)
    /\ Cardinality(RelocateSteps) = 1

\* C5: no two candidates are relocated to the same destination, each
\* destination does not exist at the moment the copy or move into it is done,
\* and no file that was already under base/YYYY/MM is overwritten.
C5_DestinationsUnique ==
    /\ \A i \in RelocateSteps : hist[i].ok => hist[i].free
    /\ \A i, j \in RelocateSteps :
          (hist[i].ok /\ hist[j].ok /\ hist[i].dest = hist[j].dest) => i = j
    /\ \A p \in DOMAIN fs0 :
          (Len(p) = 3 /\ fs0[p].kind = "file" /\ p[1] \in {"2023", "2024"} /\ p[2] \in {"01", "12"})
              => (p \in DOMAIN fs /\ fs[p] = fs0[p])

\* two candidates with the same name and month end up as name.ext and name (1).ext
C5_Witness ==
    /\ Finished
    /\ <<"a.txt">> \in Candidates
    /\ <<"sub", "a.txt">> \in Candidates
    /\ <<"2023", "01", "a.txt">> \notin DOMAIN fs0
    /\ \E i, j \in RelocateSteps :
          /\ hist[i].ok /\ hist[i].dest = <<"2023", "01", "a.txt">>
          /\ hist[j].ok /\ hist[j].dest = <<"2023", "01", "a (1).txt">>

FourDigits(s) == Len(s) = 4 /\ \A i \in 1..4 : SubSeq(s, i, i) \in Digits
TwoDigits(s) == Len(s) = 2 /\ \A i \in 1..2 : SubSeq(s, i, i) \in Digits

\* C6: gather_files in recursive mode never returns a file whose path relative
\* to the base has at least 3 segments, the first exactly 4 digits and the
\* second exactly 2 digits.
C6_NoSortedFileGathered ==
    (pc # "scan" /\ opts.include_subdirs) =>
        \A p \in Candidates : ~(Len(p) >= 3 /\ FourDigits(p[1]) /\ TwoDigits(p[2]))

C6_Witness ==
    /\ pc # "scan"
    /\ opts.include_subdirs
    /\ <<"2023", "01", "a.txt">> \in DOMAIN fs0
    /\ <<"2023", "c.txt">> \in Candidates

BackupNamed(s) == Len(s) >= 22 /\ SubSeq(s, 1, 22) = "FolderChronicle Backup"

\* C7: gather_files in recursive mode never descends into a directory whose
\* name starts with 'FolderChronicle Backup': no returned file has such an
\* ancestor directory at any depth below the base.
C7_BackupDirsPruned ==
    (pc # "scan" /\ opts.include_subdirs) =>
        \A p \in Candidates : \A k \in 1..(Len(p) - 1) : ~BackupNamed(p[k])

C7_Witness ==
    /\ pc # "scan"
    /\ opts.include_subdirs
    /\ <<"sub", OldBackup, "a.txt">> \in DOMAIN fs0
    /\ <<OldBackup, "a.txt">> \in DOMAIN fs0
    /\ <<"sub", "a.txt">> \in Candidates

\* C8: when scanning fails (the base directory cannot be read), sort_files
\* terminates at once, performs no backup and no relocation, and reports the
\* run to its caller as failed with zero files moved.
C8_ScanFailureReported ==
    (pc # "scan" /\ ~readable) =>
        /\ result.kind = "raised"
        /\ hist = << >>
        /\ moved = 0
        /\ fs = fs0

\* C9 as claimed: for every run that returns, succeeded + failed equals the
\* number of candidates the run attempted to relocate.
C9_CountsCoverRelocations ==
    Finished => result.moved + result.errors = Cardinality(RelocateSteps)

\* C9 as amended: for every run that returns, succeeded + failed equals the
\* number of candidates the run attempted to relocate plus the number of
\* backup copies that failed.
C9_CountsCoverRelocationsAndBackupErrors ==
    Finished =>
        /\ Cardinality(RelocateSteps) = Len(files)
        /\ result.moved + result.errors =
              Cardinality(RelocateSteps) + Cardinality({j \in BackupSteps : ~hist[j].ok})

C9_Witness ==
    /\ Finished
    /\ Len(files) >= 2
    /\ \E j \in BackupSteps : ~hist[j].ok
    /\ \E i \in RelocateSteps : hist[i].ok

\* the regular files directly in the base directory when the run started
BaseFiles == {p \in DOMAIN fs0 : Len(p) = 1 /\ fs0[p].kind = "file"}

\* stem and extension of the names of the model's files
SplitName(n) ==
    CASE n = "a.txt" -> <<"a", ".txt">>
      [] n = "c.txt" -> <<"c", ".txt">>
      [] n = "b" -> <<"b", "">>
      [] n = "2023" -> <<"2023", "">>

\* dir/'stem (k).ext'
NumberedIn(dir, n, k) ==
    dir \o <<SplitName(n)[1] \o " (" \o Decimal(k) \o ")" \o SplitName(n)[2]>>

HoldsCopyOf(p, src) ==
    /\ p \in DOMAIN fs
    /\ fs[p].kind = "file"
    /\ fs[p].data = fs0[src].data

CopyRun == Finished /\ readable /\ opts.copy_no_backup /\ ~opts.include_subdirs /\ NoFailure

----------------------------------------------------------------------------
(* Claims about the stages of a run *)

HasPrefix(s, q) == Len(s) >= Len(q) /\ SubSeq(s, 1, Len(q)) = q

NothingToDo == [kind |-> "returned", moved |-> 0, errors |-> 0, logs |-> <<"No files found.">>]

FailedBackups == {j \in BackupSteps : ~hist[j].ok}
FailedRelocations == {i \in RelocateSteps : ~hist[i].ok}

\* C11: when copy_no_backup is set the backup stage is skipped entirely: the
\* run creates no 'FolderChronicle Backup ...' directory, writes no backup
\* copy, adds no 'Backup error' log line, and never removes or renames a
\* source file.
C11_CopyModeSkipsBackup ==
    opts.copy_no_backup =>
        /\ BackupSteps = {}
        /\ \A p \in DOMAIN fs \ DOMAIN fs0 : \A k \in 1..Len(p) : ~BackupNamed(p[k])
        /\ \A p \in DOMAIN fs0 :
              (\E k \in 1..Len(p) : BackupNamed(p[k])) => (p \in DOMAIN fs /\ fs[p] = fs0[p])
        /\ \A i \in 1..Len(logs) : ~HasPrefix(logs[i], "Backup error")
        /\ \A src \in Candidates : src \in DOMAIN fs /\ fs[src] = fs0[src]

C11_Witness ==
    /\ Finished
    /\ opts.copy_no_backup
    /\ Len(files) >= 2
    /\ result.moved >= 1
    /\ <<OldBackup, "a.txt">> \in DOMAIN fs0

\* C12: when the scan yields zero candidates, sort_files returns succeeded = 0,
\* failed = 0 and the one log line 'No files found.', and leaves the filesystem
\* unchanged, in every combination of the option flags.
C12_EmptyScanIsNoOp ==
    (pc \notin {"scan", "raised"} /\ files = << >>) =>
        /\ pc = "done"
        /\ result = NothingToDo
        /\ hist = << >>
        /\ fs = fs0

C12_Witness ==
    /\ pc = "done"
    /\ readable
    /\ files = << >>
    /\ opts.include_subdirs
    /\ ~opts.copy_no_backup
    /\ <<"2023", "01", "a.txt">> \in DOMAIN fs0
    /\ <<OldBackup, "a.txt">> \in DOMAIN fs0

\* C13: a second, non-recursive call right after a non-recursive run that
\* moved every file successfully yields (0, 0, ['No files found.']) and
\* changes nothing on disk.
C13_SecondFlatRunIsNoOp ==
    (run = 2 /\ pc # "scan" /\ ~prev.opts.include_subdirs /\ ~opts.include_subdirs) =>
        /\ pc = "done"
        /\ result = NothingToDo
        /\ fs = fs0

C13_Witness ==
    /\ run = 2
    /\ pc = "done"
    /\ ~prev.opts.include_subdirs
    /\ ~opts.include_subdirs
    /\ Len(prev.files) >= 2
    /\ prev.result.moved = Len(prev.files)
    /\ <<"sub", "a.txt">> \in DOMAIN fs

\* C14: in the relocation phase every candidate is attempted exactly once in
\* scan order; a failure while relocating one file never propagates out of the
\* loop and never prevents the later candidates from being attempted; each
\* failure adds one to the failed count and one
\* 'Error moving <name>: <ExceptionKind>: <message>' log line.
C14_RelocationIsolatesFailures ==
    /\ pc = "raised" => hist = << >>
    /\ Cardinality(RelocateSteps) = ridx
    /\ \A i \in RelocateSteps : hist[i].src = files[i - Cardinality(BackupSteps)]
    /\ (pc = "done" /\ files # << >>) => ridx = Len(files)
    /\ errors = Cardinality(FailedBackups) + Cardinality(FailedRelocations)
    /\ Cardinality({k \in 1..Len(logs) : HasPrefix(logs[k], "Error moving ")})
          = Cardinality(FailedRelocations)
    /\ \A i \in FailedRelocations :
          \E m \in {"stat", "mkdir", "transfer"} :
              logs[Cardinality(FailedBackups) + i - Cardinality(BackupSteps)]
                 = "Error moving " \o Name(hist[i].src) \o ": OSError: " \o m

C14_Witness ==
    /\ Finished
    /\ Len(files) >= 2
    /\ \E i \in RelocateSteps :
          /\ ~hist[i].ok
          /\ i + 1 \in RelocateSteps
          /\ hist[i + 1].ok

\* C15: a failure to back up one file aborts neither the backup stage nor the
\* run: the remaining files are still backed up, the relocation is then
\* attempted for every candidate, those whose backup failed included, and each
\* backup failure adds one to the returned failed count.
C15_BackupFailureIsNotFatal ==
    (Finished /\ ~opts.copy_no_backup /\ files # << >>) =>
        /\ Len(hist) = 2 * Len(files)
        /\ \A i \in 1..Len(files) :
              /\ hist[i].phase = "backup" /\ hist[i].src = files[i]
              /\ hist[Len(files) + i].phase = "relocate"
              /\ hist[Len(files) + i].src = files[i]
              /\ hist[i].ok =>
                    /\ hist[i].dest \in DOMAIN fs
                    /\ fs[hist[i].dest].kind = "file"
                    /\ fs[hist[i].dest].data = fs0[files[i]].data
        /\ result.errors = Cardinality(FailedBackups) + Cardinality(FailedRelocations)

C15_Witness ==
    /\ Finished
    /\ ~opts.copy_no_backup
    /\ Len(files) >= 2
    /\ ~hist[1].ok
    /\ hist[2].phase = "backup" /\ hist[2].ok
    /\ hist[Len(files) + 1].ok
    /\ result.errors = 1

RelocationLine(line, src) ==
    \/ HasPrefix(line, "Moved: " \o Name(src) \o " -> ")
    \/ HasPrefix(line, "Copied: " \o Name(src) \o " -> ")
    \/ HasPrefix(line, "Error moving " \o Name(src) \o ": ")

\* C16: the log returned by a run with candidates is the backup-phase lines
\* (if any) followed by the relocation-phase lines: no 'Backup error' line
\* comes after a 'Moved:', 'Copied:' or 'Error moving' line, and the
\* relocation lines are exactly one per candidate in scan order.
C16_LogOrder ==
    (Finished /\ files # << >>) =>
        LET nb == Cardinality(FailedBackups)
        IN  /\ Len(result.logs) = nb + Len(files)
            /\ \A k \in 1..nb : HasPrefix(result.logs[k], "Backup error ")
            /\ \A i \in 1..Len(files) :
                  /\ RelocationLine(result.logs[nb + i], files[i])
                  /\ ~HasPrefix(result.logs[nb + i], "Backup error")

C16_Witness ==
    /\ Finished
    /\ Len(files) >= 2
    /\ Cardinality(FailedBackups) = 1
    /\ HasPrefix(result.logs[1], "Backup error ")
    /\ HasPrefix(result.logs[2], "Moved: ")

PhaseRank(p) ==
    CASE p = "scan" -> 0
      [] p = "backup" -> 1
      [] p = "relocate" -> 2
      [] p \in {"done", "raised"} -> 3

\* how far a call has got: its phase, then the loop iterations done
Advanced ==
    \/ PhaseRank(pc') > PhaseRank(pc)
    \/ PhaseRank(pc') = PhaseRank(pc) /\ bidx' + ridx' > bidx + ridx

\* a call that has not returned or raised is at a step it can take, and its
\* loop counters have not passed the number of candidates
CanGoOn ==
    /\ bidx <= Len(files)
    /\ ridx <= Len(files)
    /\ \/ pc \in {"done", "raised"}
       \/ pc = "scan"
       \/ pc = "backup" /\ bidx < Len(files)
       \/ pc = "relocate" /\ ridx < Len(files)

C19_SecondDeepRunIsNoOp ==
    (run = 2 /\ pc # "scan" /\ prev.opts.include_subdirs /\ opts.include_subdirs) =>
        /\ pc = "done"
        /\ result = NothingToDo
        /\ fs = fs0
        /\ \A i \in 1..Len(prev.hist) :
              LET h == prev.hist[i]
              IN  /\ h.dest \in DOMAIN fs
                  /\ h.phase = "relocate" =>
                        Len(h.dest) = 3 /\ FourDigits(h.dest[1]) /\ TwoDigits(h.dest[2])
                  /\ h.phase = "backup" => BackupNamed(h.dest[1])

C19_Witness ==
    /\ run = 2
    /\ pc = "done"
    /\ prev.opts.include_subdirs
    /\ opts.include_subdirs
    /\ <<"a.txt">> \in {prev.files[i] : i \in 1..Len(prev.files)}
    /\ <<"sub", "a.txt">> \in {prev.files[i] : i \in 1..Len(prev.files)}

----------------------------------------------------------------------------
(* Claim about the set gather_files returns *)

\* below a directory, at any depth, whose name has the backup prefix
BelowBackupDir(p) == \E k \in 1..(Len(p) - 1) : BackupNamed(p[k])

\* under base/<4 digits>/<2 digits>/...
UnderYearMonth(p) == Len(p) >= 3 /\ FourDigits(p[1]) /\ TwoDigits(p[2])

\* the eligible set of a tree
Eligible(f, deep) ==
    IF deep
    THEN {p \in DOMAIN f : f[p].kind = "file" /\ ~BelowBackupDir(p) /\ ~UnderYearMonth(p)}
    ELSE {p \in DOMAIN f : Len(p) = 1 /\ f[p].kind = "file"}

----------------------------------------------------------------------------
(* Claim about the window *)

\* the workers that are running: started, and not yet through the last
\* statement of _worker_sort
Running == {i \in 1..Len(threads) : threads[i].pos \notin {"exit", "dead"}}

\* how often event e was recorded
Count(e) == Cardinality({k \in 1..Len(hist) : hist[k] = e})

====
